---------------------------- MODULE Spec2Model ----------------------------
(***************************************************************************)
(* Model of CS_To_CG_S_Params.py: the common-source to common-gate         *)
(* S-parameter converter (parseSparamFile, calcCommGateParam,              *)
(* process_file and the Tk front end).                                     *)
(*                                                                         *)
(* Numbers.  The program computes in IEEE double / complex128.  The model  *)
(* computes in exact rational arithmetic: a real is a reduced fraction     *)
(* [n, d], a complex number a pair of them.  Rounding is therefore not     *)
(* modelled; equalities below are equalities of exact values.  A complex   *)
(* value produced by a division by zero has, in numpy, both components     *)
(* infinite or NaN, and every later +, -, *, / of the pipeline keeps both  *)
(* components non-finite; the model has one absorbing value NonFinite for  *)
(* that class.                                                             *)
(***************************************************************************)
EXTENDS Integers, Sequences, FiniteSets, TLC

VARIABLES
    file_entry,        \* text of the "Input File" entry
    inductance_entry,  \* text of the "Inductance (nH)" entry, a sequence of characters
    output_entry,      \* text of the "Output File Name" entry
    files,             \* the file system: name -> sequence of lines of a readable file
    dialogs,           \* the message boxes shown so far, oldest first
    clicks,            \* number of Process clicks handled so far
    pc,                \* control position of the running handler
    L,                 \* process_file: L = inductance * 1e-9
    f_lines,           \* parseSparamFile: the lines of the opened file
    lineNo,            \* parseSparamFile: number of lines consumed by the for loop
    parse_data,        \* parseSparamFile: the list `data` built so far
    data,              \* calcCommGateParam: the array `data` (process_file's spdat)
    i,                 \* calcCommGateParam: number of loop iterations done
    s,                 \* calcCommGateParam: the array `s`
    loc,               \* calcCommGateParam: the locals of the last loop iteration
    saved              \* the output files written: name -> number of rows written

vars == <<file_entry, inductance_entry, output_entry, files, dialogs, clicks, pc,
          L, f_lines, lineNo, parse_data, data, i, s, loc, saved>>

guiVars   == <<file_entry, inductance_entry, output_entry>>
parseVars == <<f_lines, lineNo, parse_data>>
calcVars  == <<data, i, s, loc>>

-----------------------------------------------------------------------------
(* Exact rational arithmetic. *)

AbsInt(x) == IF x < 0 THEN -x ELSE x

RECURSIVE Gcd(_, _)
Gcd(a, b) == IF b = 0 THEN a ELSE Gcd(b, a % b)

\* The fraction n/d (d # 0) in lowest terms with a positive denominator.
Rat(n, d) ==
    LET g == Gcd(AbsInt(n), AbsInt(d))
        sg == IF d < 0 THEN -1 ELSE 1
    IN  [n |-> sg * (n \div g), d |-> sg * (d \div g)]

RInt(k) == [n |-> k, d |-> 1]
RZero == RInt(0)
ROne == RInt(1)
\* Sums and products cancel common factors before multiplying, so that the
\* intermediate integers stay small.
RAdd(x, y) ==
    LET g == Gcd(x.d, y.d)
    IN  Rat(x.n * (y.d \div g) + y.n * (x.d \div g), (x.d \div g) * y.d)
RNeg(x) == [n |-> -x.n, d |-> x.d]
RSub(x, y) == RAdd(x, RNeg(y))
RMul(x, y) ==
    LET g1 == Gcd(AbsInt(x.n), y.d)
        g2 == Gcd(AbsInt(y.n), x.d)
    IN  [n |-> (x.n \div g1) * (y.n \div g2), d |-> (x.d \div g2) * (y.d \div g1)]
RInv(x) == Rat(x.d, x.n)
RDiv(x, y) == RMul(x, RInv(y))

-----------------------------------------------------------------------------
(* Complex arithmetic of numpy's complex128, on exact values. *)

Cx(re, im) == [fin |-> TRUE, re |-> re, im |-> im]
NonFinite == [fin |-> FALSE, re |-> RZero, im |-> RZero]
CInt(k) == Cx(RInt(k), RZero)
CZero == CInt(0)
COne == CInt(1)
CTwo == CInt(2)
IsZero(x) == x.fin /\ x.re.n = 0 /\ x.im.n = 0

CAdd(x, y) == IF x.fin /\ y.fin THEN Cx(RAdd(x.re, y.re), RAdd(x.im, y.im)) ELSE NonFinite
CNeg(x) == IF x.fin THEN Cx(RNeg(x.re), RNeg(x.im)) ELSE NonFinite
CSub(x, y) == CAdd(x, CNeg(y))
CMul(x, y) ==
    IF x.fin /\ y.fin
    THEN Cx(RSub(RMul(x.re, y.re), RMul(x.im, y.im)),
            RAdd(RMul(x.re, y.im), RMul(x.im, y.re)))
    ELSE NonFinite

\* Fault variant of the division: a zero divisor is guarded and gives 0
CDivGuarded(x, y) ==
    IF ~x.fin \/ ~y.fin
    THEN NonFinite
    ELSE IF IsZero(y)
    THEN CZero
    ELSE LET m == RAdd(RMul(y.re, y.re), RMul(y.im, y.im))
         IN  Cx(RDiv(RAdd(RMul(x.re, y.re), RMul(x.im, y.im)), m),
                RDiv(RSub(RMul(x.im, y.re), RMul(x.re, y.im)), m))

\* x / y.  A zero divisor gives inf/nan components (a RuntimeWarning, no
\* exception); so does a non-finite operand.
CDiv(x, y) ==
    IF ~x.fin \/ ~y.fin \/ IsZero(y)
    THEN NonFinite
    ELSE LET m == RAdd(RMul(y.re, y.re), RMul(y.im, y.im))
         IN  Cx(RDiv(RAdd(RMul(x.re, y.re), RMul(x.im, y.im)), m),
                RDiv(RSub(RMul(x.im, y.re), RMul(x.re, y.im)), m))

-----------------------------------------------------------------------------
(* process_file's configuration. *)

Z0 == 50
Col == 9
M == 1000000
NanoDen == 1000000000

\* np.pi.  A double is a rational approximation of pi; the model uses a
\* shorter one.  No property below depends on which.
Pi == Rat(25, 8)

\* L = inductance * 1e-9
Henries(inductance) == RMul(inductance, Rat(1, NanoDen))

-----------------------------------------------------------------------------
(* calcCommGateParam: the body of the loop, stage by stage.  A row is the  *)
(* sequence of its 9 columns (column k of the code is element k+1).        *)

\* np.exp(1j * deg * np.pi / 180) for a whole multiple of 90 degrees, the
\* angles at which the exact value is rational.
Cis(deg) ==
    LET q == deg.n % 360
    IN  CASE deg.d = 1 /\ q = 0   -> Cx(ROne, RZero)
          [] deg.d = 1 /\ q = 90  -> Cx(RZero, ROne)
          [] deg.d = 1 /\ q = 180 -> Cx(RInt(-1), RZero)
          [] deg.d = 1 /\ q = 270 -> Cx(RZero, RInt(-1))

\* mag * np.exp(1j * deg * np.pi / 180)
PolarToRect(mag, deg) == CMul(Cx(mag, RZero), Cis(deg))

RowToScat(row) ==
    [p11 |-> PolarToRect(row[2], row[3]),
     p21 |-> PolarToRect(row[4], row[5]),
     p12 |-> PolarToRect(row[6], row[7]),
     p22 |-> PolarToRect(row[8], row[9])]

\* del6 and y11s .. y22s
Del6(S) == CSub(CMul(CAdd(COne, S.p11), CAdd(COne, S.p22)), CMul(S.p12, S.p21))

ScatToAdmit(S) ==
    LET del6 == Del6(S)
    IN  [p11 |-> CDiv(CAdd(CMul(CSub(COne, S.p11), CAdd(COne, S.p22)), CMul(S.p12, S.p21)), del6),
         p12 |-> CDiv(CMul(CInt(-2), S.p12), del6),
         p21 |-> CDiv(CMul(CInt(-2), S.p21), del6),
         p22 |-> CDiv(CAdd(CMul(CAdd(COne, S.p11), CSub(COne, S.p22)), CMul(S.p12, S.p21)), del6)]

\* Fault variant of the transform: y22 enters y12g with the wrong sign
TopologyTransformSignSlip(Y) ==
    [p11 |-> CAdd(CAdd(CAdd(Y.p11, Y.p12), Y.p21), Y.p22),
     p12 |-> CNeg(CSub(Y.p12, Y.p22)),
     p21 |-> CNeg(CAdd(Y.p21, Y.p22)),
     p22 |-> Y.p22]

\* y11g .. y22g
TopologyTransform(Y) ==
    [p11 |-> CAdd(CAdd(CAdd(Y.p11, Y.p12), Y.p21), Y.p22),
     p12 |-> CNeg(CAdd(Y.p12, Y.p22)),
     p21 |-> CNeg(CAdd(Y.p21, Y.p22)),
     p22 |-> Y.p22]

\* del2 and s11 .. s22
Del2(Y) == CSub(CMul(CAdd(COne, Y.p11), CAdd(COne, Y.p22)), CMul(Y.p12, Y.p21))

\* Fault variant of Admittance->Scattering: s12 = 2*y12/del2, the sign of
\* the impedance formulas
AdmitToScatSignSlip(Y) ==
    LET del2 == Del2(Y)
    IN  [p11 |-> CDiv(CAdd(CMul(CSub(COne, Y.p11), CAdd(COne, Y.p22)), CMul(Y.p12, Y.p21)), del2),
         p12 |-> CDiv(CMul(CTwo, Y.p12), del2),
         p21 |-> CDiv(CMul(CInt(-2), Y.p21), del2),
         p22 |-> CDiv(CAdd(CMul(CAdd(COne, Y.p11), CSub(COne, Y.p22)), CMul(Y.p12, Y.p21)), del2)]

AdmitToScat(Y) ==
    LET del2 == Del2(Y)
    IN  [p11 |-> CDiv(CAdd(CMul(CSub(COne, Y.p11), CAdd(COne, Y.p22)), CMul(Y.p12, Y.p21)), del2),
         p12 |-> CDiv(CMul(CInt(-2), Y.p12), del2),
         p21 |-> CDiv(CMul(CInt(-2), Y.p21), del2),
         p22 |-> CDiv(CAdd(CMul(CAdd(COne, Y.p11), CSub(COne, Y.p22)), CMul(Y.p12, Y.p21)), del2)]

\* del5 and Z11 .. Z22
Del5(S) == CSub(CMul(CSub(COne, S.p11), CSub(COne, S.p22)), CMul(S.p12, S.p21))

ScatToImped(z0, S) ==
    LET del5 == Del5(S)
    IN  [p11 |-> CDiv(CMul(CInt(z0), CAdd(CMul(CAdd(COne, S.p11), CSub(COne, S.p22)), CMul(S.p12, S.p21))), del5),
         p12 |-> CDiv(CMul(CInt(z0), CMul(CTwo, S.p12)), del5),
         p21 |-> CDiv(CMul(CInt(z0), CMul(CTwo, S.p21)), del5),
         p22 |-> CDiv(CMul(CInt(z0), CAdd(CMul(CAdd(COne, S.p22), CSub(COne, S.p11)), CMul(S.p12, S.p21))), del5)]

\* Zind = 1j * 2 * np.pi * data[i, 0] * M * L  (the real factors multiplied
\* in an order that keeps the intermediate fractions small)
Zind(freq, m, l) ==
    Cx(RZero, RMul(RMul(RMul(RInt(2), Pi), freq), RMul(RInt(m), l)))

\* Fault variant of the injection: a series inductor in the two self
\* impedances only
InjectInductorDiagonal(Z, zind) ==
    [p11 |-> CAdd(Z.p11, zind),
     p12 |-> Z.p12,
     p21 |-> Z.p21,
     p22 |-> CAdd(Z.p22, zind)]

\* Z11o .. Z22o
InjectInductor(Z, zind) ==
    [p11 |-> CAdd(Z.p11, zind),
     p12 |-> CAdd(Z.p12, zind),
     p21 |-> CAdd(Z.p21, zind),
     p22 |-> CAdd(Z.p22, zind)]

\* Fault variant of the normalisation: z12o and z21o are left in ohms
NormalizeDiagonal(Zo, z0) ==
    [p11 |-> CDiv(Zo.p11, CInt(z0)),
     p12 |-> Zo.p12,
     p21 |-> Zo.p21,
     p22 |-> CDiv(Zo.p22, CInt(z0))]

\* z11o .. z22o
Normalize(Zo, z0) ==
    [p11 |-> CDiv(Zo.p11, CInt(z0)),
     p12 |-> CDiv(Zo.p12, CInt(z0)),
     p21 |-> CDiv(Zo.p21, CInt(z0)),
     p22 |-> CDiv(Zo.p22, CInt(z0))]

\* del4 and s11i .. s22i
Del4(z) == CSub(CMul(CAdd(z.p11, COne), CAdd(z.p22, COne)), CMul(z.p12, z.p21))

ImpedToScat(z) ==
    LET del4 == Del4(z)
    IN  [p11 |-> CDiv(CSub(CMul(CSub(z.p11, COne), CAdd(z.p22, COne)), CMul(z.p12, z.p21)), del4),
         p12 |-> CDiv(CMul(CTwo, z.p12), del4),
         p21 |-> CDiv(CMul(CTwo, z.p21), del4),
         p22 |-> CDiv(CSub(CMul(CAdd(z.p11, COne), CSub(z.p22, COne)), CMul(z.p12, z.p21)), del4)]

\* np.abs(x), recorded as its square |x|^2 (the magnitude itself is in
\* general irrational; squaring is one-to-one on magnitudes).
Mag(x) ==
    IF x.fin
    THEN [fin |-> TRUE, sq |-> RAdd(RMul(x.re, x.re), RMul(x.im, x.im))]
    ELSE [fin |-> FALSE, sq |-> RZero]

\* np.angle(x, deg=True), recorded as the direction of x: the integer
\* vector of coprime components pointing the same way, which fixes the
\* angle in (-180, 180].  np.angle(0) is 0, the direction of 1.  For a
\* non-finite x the angle is nan or an angle fixed by the signs of the
\* infinite components; the model records only that x was non-finite.
Angle(x) ==
    IF ~x.fin THEN [fin |-> FALSE, dir |-> <<0, 0>>]
    ELSE IF IsZero(x) THEN [fin |-> TRUE, dir |-> <<1, 0>>]
    ELSE LET a == x.re.n * x.im.d
             b == x.im.n * x.re.d
             g == Gcd(AbsInt(a), AbsInt(b))
         IN  [fin |-> TRUE, dir |-> <<a \div g, b \div g>>]

\* One iteration: every local of the loop body for one row.  Each stage
\* hands its result on to the next as a parameter.
Locals(freq, Ss, Ys, Yg, Sg, Z, zind, Zo, zo, Si) ==
    [freq |-> freq,
     ss |-> Ss, del6 |-> Del6(Ss), ys |-> Ys, yg |-> Yg,
     del2 |-> Del2(Yg), sg |-> Sg, del5 |-> Del5(Sg), Z |-> Z,
     Zind |-> zind, Zo |-> Zo, zo |-> zo, del4 |-> Del4(zo), si |-> Si]

BodyFromNorm(freq, Ss, Ys, Yg, Sg, Z, zind, Zo, zo) ==
    Locals(freq, Ss, Ys, Yg, Sg, Z, zind, Zo, zo, ImpedToScat(zo))

BodyFromInject(z0, freq, Ss, Ys, Yg, Sg, Z, zind, Zo) ==
    BodyFromNorm(freq, Ss, Ys, Yg, Sg, Z, zind, Zo, Normalize(Zo, z0))

BodyFromImped(z0, freq, Ss, Ys, Yg, Sg, Z, zind) ==
    BodyFromInject(z0, freq, Ss, Ys, Yg, Sg, Z, zind, InjectInductor(Z, zind))

BodyFromScatG(z0, m, l, freq, Ss, Ys, Yg, Sg) ==
    BodyFromImped(z0, freq, Ss, Ys, Yg, Sg, ScatToImped(z0, Sg), Zind(freq, m, l))

BodyFromTopology(z0, m, l, freq, Ss, Ys, Yg) ==
    BodyFromScatG(z0, m, l, freq, Ss, Ys, Yg, AdmitToScat(Yg))

BodyFromAdmit(z0, m, l, freq, Ss, Ys) ==
    BodyFromTopology(z0, m, l, freq, Ss, Ys, TopologyTransform(Ys))

BodyFromScat(z0, m, l, freq, Ss) ==
    BodyFromAdmit(z0, m, l, freq, Ss, ScatToAdmit(Ss))

LoopBody(z0, m, l, row) == BodyFromScat(z0, m, l, row[1], RowToScat(row))

\* Fault variant of the output row: s[i, 0] is never assigned and keeps the
\* zero of np.zeros
OutRowNoFrequency(b) ==
    <<RZero, Mag(b.si.p11), Angle(b.si.p11), Mag(b.si.p21), Angle(b.si.p21),
      Mag(b.si.p12), Angle(b.si.p12), Mag(b.si.p22), Angle(b.si.p22)>>

\* s[i, 0] .. s[i, 8]
OutRow(b) ==
    <<b.freq, Mag(b.si.p11), Angle(b.si.p11), Mag(b.si.p21), Angle(b.si.p21),
      Mag(b.si.p12), Angle(b.si.p12), Mag(b.si.p22), Angle(b.si.p22)>>

\* A row of np.zeros
ZeroRow ==
    <<RZero, Mag(CZero), Angle(CZero), Mag(CZero), Angle(CZero),
      Mag(CZero), Angle(CZero), Mag(CZero), Angle(CZero)>>

Zeros(n) == [k \in 1..n |-> ZeroRow]

NoLocals == [none |-> TRUE]

\* Fault variant of the loop: the four results are kept in arrays shared by
\* all rows, so an iteration rewrites the rows before it as well
CalcRowShared ==
    /\ pc = "calc"
    /\ i < Len(data)
    /\ loc' = LoopBody(Z0, M, L, data[i + 1])
    /\ s' = [k \in 1..Len(s) |-> IF k <= i + 1
                                   THEN <<data[k][1]>> \o SubSeq(OutRow(loc'), 2, Col)
                                   ELSE s[k]]
    /\ i' = i + 1
    /\ UNCHANGED <<guiVars, files, dialogs, clicks, pc, L, parseVars, data, saved>>

\* for i in range(len_data): one iteration
CalcRow ==
    /\ pc = "calc"
    /\ i < Len(data)
    /\ loc' = LoopBody(Z0, M, L, data[i + 1])
    /\ s' = [s EXCEPT ![i + 1] = OutRow(loc')]
    /\ i' = i + 1
    /\ UNCHANGED <<guiVars, files, dialogs, clicks, pc, L, parseVars, data, saved>>

\* the loop is over: return s
CalcReturn ==
    /\ pc = "calc"
    /\ i = Len(data)
    /\ pc' = "save"
    /\ UNCHANGED <<guiVars, files, dialogs, clicks, L, parseVars, calcVars, saved>>

-----------------------------------------------------------------------------
(* parseSparamFile.  A line is the sequence of its characters, the final   *)
(* newline included.  The characters that occur are the digits, "-", ".",  *)
(* "!", "#", "x", the blank and the newline.                               *)

Digits == {"0", "1", "2", "3", "4", "5", "6", "7", "8", "9"}
Whitespace == {" ", "\n"}

DigitVal(c) ==
    CASE c = "0" -> 0 [] c = "1" -> 1 [] c = "2" -> 2 [] c = "3" -> 3 [] c = "4" -> 4
      [] c = "5" -> 5 [] c = "6" -> 6 [] c = "7" -> 7 [] c = "8" -> 8 [] c = "9" -> 9

RECURSIVE DecVal(_)
DecVal(ds) ==
    IF ds = <<>> THEN 0
    ELSE 10 * DecVal(SubSeq(ds, 1, Len(ds) - 1)) + DigitVal(ds[Len(ds)])

RECURSIVE Pow10(_)
Pow10(k) == IF k = 0 THEN 1 ELSE 10 * Pow10(k - 1)

IsDigit(c) == c \in Digits

\* float(tok) on the characters above: an optional "-", then digits with at
\* most one "." among them and at least one digit.  ok = FALSE is ValueError.
ParseFloat(tok) ==
    LET neg  == tok # <<>> /\ tok[1] = "-"
        body == IF neg THEN Tail(tok) ELSE tok
        dots == {k \in 1..Len(body) : body[k] = "."}
        ok   == /\ \A k \in 1..Len(body) : IsDigit(body[k]) \/ body[k] = "."
                /\ Cardinality(dots) <= 1
                /\ \E k \in 1..Len(body) : IsDigit(body[k])
        frac == IF dots = {} THEN 0 ELSE Len(body) - (CHOOSE k \in dots : TRUE)
        num  == DecVal(SelectSeq(body, IsDigit))
    IN  IF ok THEN [ok |-> TRUE, val |-> Rat(IF neg THEN -num ELSE num, Pow10(frac))]
        ELSE [ok |-> FALSE, val |-> RZero]

\* line.split(): the maximal runs of non-whitespace characters, in order
RECURSIVE SplitFrom(_, _, _)
SplitFrom(line, k, cur) ==
    IF k > Len(line)
    THEN IF cur = <<>> THEN <<>> ELSE <<cur>>
    ELSE IF line[k] \in Whitespace
         THEN (IF cur = <<>> THEN <<>> ELSE <<cur>>) \o SplitFrom(line, k + 1, <<>>)
         ELSE SplitFrom(line, k + 1, Append(cur, line[k]))

Split(line) == SplitFrom(line, 1, <<>>)

\* line.startswith('!') or line.startswith('#')
IsComment(line) == line # <<>> /\ line[1] \in {"!", "#"}

\* Fault variant of the row filter: a line with more than col numbers is
\* kept too
ParseStepAtLeast(acc, line, col) ==
    IF IsComment(line) THEN acc
    ELSE LET toks == Split(line)
             fl   == [k \in 1..Len(toks) |-> ParseFloat(toks[k])]
         IN  IF \E k \in 1..Len(toks) : ~fl[k].ok THEN acc
             ELSE IF Len(toks) >= col
                  THEN Append(acc, [k \in 1..Len(toks) |-> fl[k].val])
                  ELSE acc

\* One iteration of `for line in f`: the list data after the line
ParseStep(acc, line, col) ==
    IF IsComment(line) THEN acc
    ELSE LET toks == Split(line)
             fl   == [k \in 1..Len(toks) |-> ParseFloat(toks[k])]
         IN  IF \E k \in 1..Len(toks) : ~fl[k].ok THEN acc
             ELSE IF Len(toks) = col
                  THEN Append(acc, [k \in 1..Len(toks) |-> fl[k].val])
                  ELSE acc

ParseLine ==
    /\ pc = "parse"
    /\ lineNo < Len(f_lines)
    /\ parse_data' = ParseStep(parse_data, f_lines[lineNo + 1], Col)
    /\ lineNo' = lineNo + 1
    /\ UNCHANGED <<guiVars, files, dialogs, clicks, pc, L, f_lines, calcVars, saved>>

\* return data; process_file makes the array spdat of it and calls
\* calcCommGateParam, which allocates s = np.zeros((len(data), col))
ParseReturn ==
    /\ pc = "parse"
    /\ lineNo = Len(f_lines)
    /\ data' = parse_data
    /\ i' = 0
    /\ s' = Zeros(Len(parse_data))
    /\ pc' = "calc"
    /\ UNCHANGED <<guiVars, files, dialogs, clicks, L, parseVars, loc, saved>>

\* The list parseSparamFile returns for a whole file
RECURSIVE ParseAll(_, _)
ParseAll(lines, col) ==
    IF lines = <<>> THEN <<>>
    ELSE ParseStep(ParseAll(SubSeq(lines, 1, Len(lines) - 1), col), lines[Len(lines)], col)

-----------------------------------------------------------------------------
(* process_file and the front end. *)

NoFiles == <<>>

ErrorBox(text) == [kind |-> "Error", text |-> text]
SuccessBox(text) == [kind |-> "Success", text |-> text]

\* np.savetxt(output_file, s) succeeds unless the path cannot be created
Writable(name) == name # "no_dir/out.txt"

\* The locals of process_file and of the functions it calls are gone on return
LocalsGone ==
    /\ L' = RZero
    /\ f_lines' = <<>>
    /\ lineNo' = 0
    /\ parse_data' = <<>>
    /\ data' = <<>>
    /\ i' = 0
    /\ s' = <<>>
    /\ loc' = NoLocals

\* except Exception as e: messagebox.showerror(...), and process_file returns
Except ==
    /\ dialogs' = Append(dialogs, ErrorBox("An error occurred"))
    /\ pc' = "idle"
    /\ LocalsGone

\* select_file: the Browse button; path = "" is a cancelled dialog
select_file(path) ==
    /\ pc = "idle"
    /\ file_entry' = (IF path # "" THEN path ELSE file_entry)
    /\ UNCHANGED <<inductance_entry, output_entry, files, dialogs, clicks, pc,
                   L, parseVars, calcVars, saved>>

\* The user edits the text of an entry
EditFile(text) ==
    /\ pc = "idle"
    /\ file_entry' = text
    /\ UNCHANGED <<inductance_entry, output_entry, files, dialogs, clicks, pc,
                   L, parseVars, calcVars, saved>>

EditInductance(text) ==
    /\ pc = "idle"
    /\ inductance_entry' = text
    /\ UNCHANGED <<file_entry, output_entry, files, dialogs, clicks, pc,
                   L, parseVars, calcVars, saved>>

EditOutput(text) ==
    /\ pc = "idle"
    /\ output_entry' = text
    /\ UNCHANGED <<file_entry, inductance_entry, files, dialogs, clicks, pc,
                   L, parseVars, calcVars, saved>>

\* Fault variant of the click handler: the inductance is converted before
\* the two names are looked at
process_button_click_InductanceFirst ==
    /\ pc = "idle"
    /\ clicks' = clicks + 1
    /\ IF ~ParseFloat(inductance_entry).ok
       THEN /\ dialogs' = Append(dialogs, ErrorBox("Please enter a valid inductance value."))
            /\ UNCHANGED <<pc, L>>
       ELSE IF file_entry = ""
       THEN /\ dialogs' = Append(dialogs, ErrorBox("Please select an input file."))
            /\ UNCHANGED <<pc, L>>
       ELSE IF output_entry = ""
       THEN /\ dialogs' = Append(dialogs, ErrorBox("Please enter an output file name."))
            /\ UNCHANGED <<pc, L>>
       ELSE /\ pc' = "open"
            /\ L' = Henries(ParseFloat(inductance_entry).val)
            /\ UNCHANGED dialogs
    /\ UNCHANGED <<guiVars, files, parseVars, calcVars, saved>>

\* process_button_click, up to and including the call of process_file and
\* its first assignments (Z0, col, M, L)
process_button_click ==
    /\ pc = "idle"
    /\ clicks' = clicks + 1
    /\ IF file_entry = ""
       THEN /\ dialogs' = Append(dialogs, ErrorBox("Please select an input file."))
            /\ UNCHANGED <<pc, L>>
       ELSE IF output_entry = ""
       THEN /\ dialogs' = Append(dialogs, ErrorBox("Please enter an output file name."))
            /\ UNCHANGED <<pc, L>>
       ELSE IF ~ParseFloat(inductance_entry).ok
       THEN /\ dialogs' = Append(dialogs, ErrorBox("Please enter a valid inductance value."))
            /\ UNCHANGED <<pc, L>>
       ELSE /\ pc' = "open"
            /\ L' = Henries(ParseFloat(inductance_entry).val)
            /\ UNCHANGED dialogs
    /\ UNCHANGED <<guiVars, files, parseVars, calcVars, saved>>

\* parseSparamFile: with open(filename, 'r') as f
OpenOk ==
    /\ pc = "open"
    /\ file_entry \in DOMAIN files
    /\ f_lines' = files[file_entry]
    /\ lineNo' = 0
    /\ parse_data' = <<>>
    /\ pc' = "parse"
    /\ UNCHANGED <<guiVars, files, dialogs, clicks, L, calcVars, saved>>

\* open raises (no such file): the exception reaches process_file's handler
OpenFail ==
    /\ pc = "open"
    /\ file_entry \notin DOMAIN files
    /\ Except
    /\ UNCHANGED <<guiVars, files, clicks, saved>>

\* np.savetxt(output_file, s, fmt='%g') and the Success box.  The file is
\* recorded by the number of rows written to it.
SaveOk ==
    /\ pc = "save"
    /\ Writable(output_entry)
    /\ saved' = (output_entry :> Len(s)) @@ saved
    /\ dialogs' = Append(dialogs, SuccessBox("File processed and saved"))
    /\ pc' = "idle"
    /\ LocalsGone
    /\ UNCHANGED <<guiVars, files, clicks>>

\* Fault variant of a failing write: the Success box is shown before
\* np.savetxt is called
SaveFailAfterSuccess ==
    /\ pc = "save"
    /\ ~Writable(output_entry)
    /\ dialogs' = dialogs \o <<SuccessBox("File processed and saved"),
                               ErrorBox("An error occurred")>>
    /\ pc' = "idle"
    /\ LocalsGone
    /\ UNCHANGED <<guiVars, files, clicks, saved>>

\* np.savetxt raises
SaveFail ==
    /\ pc = "save"
    /\ ~Writable(output_entry)
    /\ Except
    /\ UNCHANGED <<guiVars, files, clicks, saved>>

-----------------------------------------------------------------------------
(* Inputs. *)

MaxRows == 2
MaxLines == 2
MaxClicks == 2

RECURSIVE JoinToks(_)
JoinToks(toks) ==
    IF toks = <<>> THEN <<>>
    ELSE IF Len(toks) = 1 THEN toks[1]
    ELSE toks[1] \o <<" ">> \o JoinToks(Tail(toks))

\* The text line of the tokens, blank-separated, newline-terminated
MkLine(indent, toks) == (IF indent THEN <<" ">> ELSE <<>>) \o JoinToks(toks) \o <<"\n">>

SeqsUpTo(S, n) == UNION {[1..k -> S] : k \in 0..n}

T0 == <<"0">>
THalf == <<"0", ".", "5">>
T1 == <<"1">>
T2 == <<"2">>
T90 == <<"9", "0">>
T180 == <<"1", "8", "0">>
TM90 == <<"-", "9", "0">>
T8 == <<"8">>
T16 == <<"1", "6">>
T1000 == <<"1", "0", "0", "0">>

FreqToks == {T0, T8, T16}
MagToks == {T0, THalf, T1, T2}
PhaseToks == {T0, T90, T180, TM90}

\* (magnitude, phase) token pairs: S11 ranges over all of them, the other
\* three parameters over a part
S11Toks == {<<T0, T0>>} \cup {<<m, p>> : m \in MagToks \ {T0}, p \in PhaseToks}
S21Toks == {<<T0, T0>>, <<T2, T0>>, <<T1, T90>>, <<T2, TM90>>}
S12Toks == {<<T0, T0>>, <<THalf, T0>>, <<T1, TM90>>, <<T1, T180>>}
S22Toks == {<<T0, T0>>, <<THalf, T0>>, <<T1, T0>>, <<T1, T180>>, <<T1, T90>>}

\* Well-formed data lines of 9 columns
WideLines ==
    {MkLine(FALSE, <<f>> \o a \o b \o c \o d) :
        f \in {T8}, a \in S11Toks, b \in S21Toks, c \in S12Toks, d \in S22Toks}

\* A regular record at two frequencies, one with del6 = 0, one with del5 = 0
RegularLine == MkLine(FALSE, <<T8, THalf, T0, T2, T90, THalf, T180, T1, TM90>>)
RegularLine2 == MkLine(FALSE, <<T16, THalf, T0, T2, T90, THalf, T180, T1, TM90>>)
Del6Line == MkLine(FALSE, <<T8, T0, T0, T2, T0, THalf, T0, T0, T0>>)
Del5Line == MkLine(FALSE, <<T8, T1, T0, T0, T0, T0, T0, T1, T0>>)
NarrowLines == {RegularLine, RegularLine2, Del6Line, Del5Line}

InductanceTexts == {T0, T1000}

\* The state in which calcCommGateParam starts its loop, process_file
\* having parsed the file `lines` with the inductance text `ind`
CalcEntry(lines, ind) ==
    LET d == ParseAll(lines, Col)
    IN  /\ file_entry = "in.s2p"
        /\ inductance_entry = ind
        /\ output_entry = "out.txt"
        /\ files = ("in.s2p" :> lines)
        /\ dialogs = <<>>
        /\ clicks = 1
        /\ pc = "calc"
        /\ L = Henries(ParseFloat(ind).val)
        /\ f_lines = lines
        /\ lineNo = Len(lines)
        /\ parse_data = d
        /\ data = d
        /\ i = 0
        /\ s = Zeros(Len(d))
        /\ loc = NoLocals
        /\ saved = NoFiles

\* One record from the wide set, or up to MaxRows records from the narrow one
InitCalc ==
    \E lines \in {<<l>> : l \in WideLines} \cup SeqsUpTo(NarrowLines, MaxRows),
       ind \in InductanceTexts :
        CalcEntry(lines, ind)

NextCalc == CalcRow \/ CalcReturn

SpecCalc == InitCalc /\ [][NextCalc]_vars

(* parseSparamFile on its own: files of up to MaxLines lines, each a data   *)
(* line, or one cut short, made too long, with a token that is no number,  *)
(* commented out, indented or blank.                                       *)

GoodToks == <<T8, THalf, T0, T2, T90, THalf, T180, T1, TM90>>
JunkToks == {<<"x">>, <<"#", "1">>, <<"1", ".", "2", ".", "3">>}

TokSeqs ==
    {SubSeq(GoodToks \o <<T1>>, 1, k) : k \in {0, Col - 1, Col, Col + 1}}
      \cup {[GoodToks EXCEPT ![p] = j] : p \in {1, Col}, j \in JunkToks}
      \cup {<<c>> \o GoodToks : c \in {<<"!">>, <<"#">>}}

ParseLines ==
    {MkLine(ind, toks) : ind \in BOOLEAN, toks \in TokSeqs} \cup {RegularLine2}

\* The state in which parseSparamFile starts its loop over the lines
ParseEntry(lines, ind) ==
    /\ file_entry = "in.s2p"
    /\ inductance_entry = ind
    /\ output_entry = "out.txt"
    /\ files = ("in.s2p" :> lines)
    /\ dialogs = <<>>
    /\ clicks = 1
    /\ pc = "parse"
    /\ L = Henries(ParseFloat(ind).val)
    /\ f_lines = lines
    /\ lineNo = 0
    /\ parse_data = <<>>
    /\ data = <<>>
    /\ i = 0
    /\ s = <<>>
    /\ loc = NoLocals
    /\ saved = NoFiles

InitParse == \E lines \in SeqsUpTo(ParseLines, MaxLines) : ParseEntry(lines, T0)

NextParse == ParseLine \/ ParseReturn

SpecParse == InitParse /\ [][NextParse]_vars

(* The whole program: the window as built, the user editing the entries    *)
(* and clicking Process up to MaxClicks times, over a file system holding  *)
(* in.s2p (and no gone.s2p).                                               *)

InputNames == {"in.s2p", "gone.s2p"}
OutputNames == {"out.txt", "no_dir/out.txt"}
EntryTexts == {<<>>, <<"x">>, T0, T1000}

CommentLine == MkLine(FALSE, <<<<"!">>, <<"x">>>>)
FileLines == {CommentLine, RegularLine, Del6Line}

Init ==
    /\ file_entry = ""
    /\ inductance_entry = <<>>
    /\ output_entry = ""
    /\ files \in {("in.s2p" :> c) : c \in SeqsUpTo(FileLines, MaxLines)}
    /\ dialogs = <<>>
    /\ clicks = 0
    /\ pc = "idle"
    /\ L = RZero
    /\ f_lines = <<>>
    /\ lineNo = 0
    /\ parse_data = <<>>
    /\ data = <<>>
    /\ i = 0
    /\ s = <<>>
    /\ loc = NoLocals
    /\ saved = NoFiles

Next ==
    \/ \E path \in InputNames \cup {""} : select_file(path)
    \/ \E text \in InputNames \cup {""} : EditFile(text)
    \/ \E text \in EntryTexts : EditInductance(text)
    \/ \E text \in OutputNames \cup {""} : EditOutput(text)
    \/ clicks < MaxClicks /\ process_button_click
    \/ OpenOk
    \/ OpenFail
    \/ ParseLine
    \/ ParseReturn
    \/ CalcRow
    \/ CalcReturn
    \/ SaveOk
    \/ SaveFail

Spec == Init /\ [][Next]_vars

-----------------------------------------------------------------------------
(* Properties. *)

Entries == {"p11", "p12", "p21", "p22"}
Finite2(P) == \A e \in Entries : P[e].fin
NonFinite2(P) == \A e \in Entries : ~P[e].fin
NonZero(x) == x.fin /\ ~IsZero(x)

\* The loop body has run at least once, so loc holds a row's locals
Iterated == pc \in {"calc", "save"} /\ i > 0

\* C1 (as amended): for finite admittance parameters the Topology Transform
\* is its own inverse: applied to the common-gate parameters it has
\* produced, it gives back the common-source parameters.
C1_TopologyInvolution ==
    Iterated /\ Finite2(loc.ys) => TopologyTransform(loc.yg) = loc.ys

C1_Witness ==
    /\ Iterated
    /\ Finite2(loc.ys)
    /\ \A e \in Entries : NonZero(loc.ys[e])
    /\ \A e \in {"p11", "p12", "p21"} : loc.yg[e] # loc.ys[e]
    /\ TopologyTransform(loc.yg) = loc.ys

\* C1 (as claimed): some admittance parameters are not recovered by
\* applying the Topology Transform twice.
AdmittanceValues == {CZero, COne, Cx(RZero, ROne), Cx(Rat(1, 2), RInt(-1)), Cx(RInt(-2), Rat(1, 3))}
AdmittanceInputs ==
    {[p11 |-> a, p12 |-> b, p21 |-> c, p22 |-> d] :
        a \in AdmittanceValues, b \in AdmittanceValues,
        c \in AdmittanceValues, d \in AdmittanceValues}

C1_NotSelfInverse ==
    \/ \E Y \in AdmittanceInputs : TopologyTransform(TopologyTransform(Y)) # Y
    \/ Iterated /\ Finite2(loc.ys) /\ TopologyTransform(loc.yg) # loc.ys

\* C2 (as amended): with zero inductance, for every record whose
\* determinant del5 is finite and not zero, the final parameters s11i..s22i
\* equal the intermediate common-gate parameters s11..s22.
C2_ZeroInductance ==
    Iterated /\ L = RZero /\ NonZero(loc.del5) => loc.si = loc.sg

C2_Witness ==
    /\ Iterated
    /\ L = RZero
    /\ loc.freq # RZero
    /\ NonZero(loc.del5)
    /\ \A e \in Entries : NonZero(loc.sg[e])
    /\ loc.si = loc.sg

\* C2 (as claimed): with zero inductance the final parameters equal the
\* intermediate ones for every record, del5 = 0 included.
C2_ZeroInductanceEveryRecord ==
    Iterated /\ L = RZero => loc.si = loc.sg

\* C3: for every record with del6 # 0, Admittance->Scattering applied to the
\* result of Scattering->Admittance returns the scattering parameters, and
\* its determinant (1+Y11)(1+Y22) - Y12*Y21 is not zero.
C3_RoundTrip ==
    Iterated /\ NonZero(loc.del6) =>
        /\ NonZero(Del2(loc.ys))
        /\ AdmitToScat(loc.ys) = loc.ss

C3_Witness ==
    /\ Iterated
    /\ NonZero(loc.del6)
    /\ \A e \in Entries : NonZero(loc.ss[e])
    /\ loc.ss.p12 # loc.ss.p21
    /\ AdmitToScat(loc.ys) = loc.ss

\* C4: the output has one row per input row, the loop handles the rows one
\* by one in order (rows not yet reached are still zero, and at the return
\* every row has been reached), and the frequency column is copied.
C4_RowsAndFrequencies ==
    pc \in {"calc", "save"} =>
        /\ Len(s) = Len(data)
        /\ i <= Len(data)
        /\ pc = "save" => i = Len(data)
        /\ \A k \in 1..i : s[k][1] = data[k][1]
        /\ \A k \in (i + 1)..Len(data) : s[k] = ZeroRow

C4_Witness ==
    /\ pc = "save"
    /\ Len(data) >= 2
    /\ data[1][1] # data[2][1]
    /\ s[1][1] = data[1][1]
    /\ s[2][1] = data[2][1]
    /\ s[1] # ZeroRow

\* C5: output row k is the image of input row k under one function of the
\* row and (Z0, M, L); hence equal rows give equal output rows, and the
\* output of any permutation of the input is the same permutation of the
\* output.
RowResult(row) == OutRow(LoopBody(Z0, M, L, row))
Permuted(q, p) == [k \in 1..Len(q) |-> q[p[k]]]
Perms(n) == {p \in [1..n -> 1..n] : \A a, b \in 1..n : p[a] = p[b] => a = b}

C5_NoCrossRecordCoupling ==
    pc \in {"calc", "save"} =>
        /\ \A k \in 1..i : s[k] = RowResult(data[k])
        /\ \A j, k \in 1..i : data[j] = data[k] => s[j] = s[k]
        /\ pc = "save" =>
             \A p \in Perms(Len(data)) :
                 [k \in 1..Len(data) |-> RowResult(Permuted(data, p)[k])] = Permuted(s, p)

C5_Witness ==
    /\ pc = "save"
    /\ Len(data) >= 2
    /\ data[1] # data[2]
    /\ s[1] # s[2]
    /\ s[1] = RowResult(data[1])
    /\ s[2] = RowResult(data[2])

\* C6: a zero determinant raises nothing and is not replaced by a default:
\* every parameter computed from it on is non-finite, down to the eight
\* magnitude and angle columns of that output row, while its frequency
\* column, and the rows whose determinants are all non-zero, stay finite.
OutFinite(row) == \A c \in 2..Col : row[c].fin
OutNonFinite(row) == \A c \in 2..Col : ~row[c].fin
Regular(b) == NonZero(b.del6) /\ NonZero(b.del2) /\ NonZero(b.del5) /\ NonZero(b.del4)

C6_SingularityPropagates ==
    Iterated =>
        /\ IsZero(loc.del6) =>
             NonFinite2(loc.ys) /\ NonFinite2(loc.yg) /\ NonFinite2(loc.sg)
        /\ IsZero(loc.del6) \/ IsZero(loc.del2) =>
             NonFinite2(loc.sg) /\ NonFinite2(loc.Z)
        /\ IsZero(loc.del6) \/ IsZero(loc.del2) \/ IsZero(loc.del5) =>
             NonFinite2(loc.Z) /\ NonFinite2(loc.Zo) /\ NonFinite2(loc.zo)
        /\ ~Regular(loc) => NonFinite2(loc.si)
        /\ \A k \in 1..i :
             /\ s[k][1] = data[k][1]
             /\ IF Regular(IF k = i THEN loc ELSE LoopBody(Z0, M, L, data[k]))
                THEN OutFinite(s[k])
                ELSE OutNonFinite(s[k])

C6_Witness ==
    /\ pc = "save"
    /\ Len(data) >= 2
    /\ IsZero(Del6(RowToScat(data[1])))
    /\ OutNonFinite(s[1])
    /\ OutFinite(s[2])
    /\ s[1][1] = data[1][1]

\* C9: the inductor injection adds one purely imaginary value, the record's
\* frequency times 2*pi*M*L, to all four impedance entries: real parts and
\* differences between entries are unchanged.
C9_InductorAdditive ==
    Iterated =>
        /\ loc.Zind.fin
        /\ loc.Zind.re = RZero
        /\ loc.Zind.im = RMul(loc.freq, RMul(RMul(RInt(2), Pi), RMul(RInt(M), L)))
        /\ L = RZero \/ loc.freq = RZero => loc.Zind.im = RZero
        /\ \A e \in Entries :
             IF loc.Z[e].fin
             THEN /\ loc.Zo[e].fin
                  /\ loc.Zo[e].re = loc.Z[e].re
                  /\ RSub(loc.Zo[e].im, loc.Z[e].im) = loc.Zind.im
             ELSE ~loc.Zo[e].fin
        /\ \A a, b \in Entries : CSub(loc.Zo[a], loc.Zo[b]) = CSub(loc.Z[a], loc.Z[b])

C9_Witness ==
    /\ Iterated
    /\ Finite2(loc.Z)
    /\ loc.Zind.im # RZero
    /\ \A e \in Entries : loc.Zo[e] # loc.Z[e] /\ loc.Zo[e].re = loc.Z[e].re
    /\ loc.Z.p11 # loc.Z.p12

\* C7: the list parseSparamFile has built is, in file order, the rows of
\* exactly those lines read so far that do not start with '!' or '#' and
\* whose blank-separated tokens all are numbers and number exactly col; at
\* the return every line has been read and these rows are what
\* calcCommGateParam receives.
AllNumeric(toks) == \A k \in 1..Len(toks) : ParseFloat(toks[k]).ok
Accepted(line) ==
    /\ ~(line # <<>> /\ line[1] = "!")
    /\ ~(line # <<>> /\ line[1] = "#")
    /\ AllNumeric(Split(line))
    /\ Len(Split(line)) = Col
NumbersOf(line) == [k \in 1..Len(Split(line)) |-> ParseFloat(Split(line)[k]).val]
RowsOf(lines) ==
    [k \in 1..Len(SelectSeq(lines, Accepted)) |-> NumbersOf(SelectSeq(lines, Accepted)[k])]

C7_IngestionFilter ==
    /\ pc = "parse" =>
         /\ lineNo <= Len(f_lines)
         /\ parse_data = RowsOf(SubSeq(f_lines, 1, lineNo))
    /\ pc = "calc" =>
         /\ lineNo = Len(f_lines)
         /\ data = RowsOf(f_lines)
         /\ \A k \in 1..Len(data) : Len(data[k]) = Col

\* a file of a kept line and a dropped line of numbers only
C7_Witness ==
    /\ pc = "calc"
    /\ Len(f_lines) = 2
    /\ Len(data) = 1
    /\ \E k \in 1..2 :
         /\ AllNumeric(Split(f_lines[k]))
         /\ Len(Split(f_lines[k])) > Col
         /\ ~Accepted(f_lines[k])

\* C8: a Process click calls process_file exactly when the input file
\* entry is not empty, the output entry is not empty and the inductance
\* text is a number; otherwise it shows one Error box - for the first
\* failing check in the order input file, output file, inductance - and
\* nothing is parsed, converted or written.  process_file starts on a
\* click only.
Rejected(text) ==
    /\ dialogs' = Append(dialogs, ErrorBox(text))
    /\ pc' = "idle"
    /\ UNCHANGED <<L, parseVars, calcVars, saved>>

C8_ValidationGate ==
    [][/\ clicks' # clicks =>
            /\ clicks' = clicks + 1
            /\ pc = "idle"
            /\ IF file_entry = ""
               THEN Rejected("Please select an input file.")
               ELSE IF output_entry = ""
               THEN Rejected("Please enter an output file name.")
               ELSE IF ~ParseFloat(inductance_entry).ok
               THEN Rejected("Please enter a valid inductance value.")
               ELSE pc' = "open" /\ dialogs' = dialogs /\ saved' = saved
       /\ pc = "idle" /\ pc' # "idle" => clicks' = clicks + 1]_vars

C8_Witness ==
    /\ pc = "idle"
    /\ clicks = 2
    /\ file_entry # ""
    /\ output_entry # ""
    /\ dialogs = <<ErrorBox("Please select an input file."),
                   ErrorBox("Please enter a valid inductance value.")>>
    /\ saved = NoFiles

\* C10: process_file ends by showing exactly one box, Success or Error;
\* Success only when the file has been read to its end, every row converted
\* and the output written; a failing open or write ends in the Error box;
\* and no box is shown before process_file ends.
InProcessFile == pc \in {"open", "parse", "calc", "save"}

C10_ProcessFileOutcome ==
    [][InProcessFile =>
         IF pc' = "idle"
         THEN \/ /\ dialogs' = Append(dialogs, SuccessBox("File processed and saved"))
                 /\ pc = "save"
                 /\ lineNo = Len(f_lines)
                 /\ i = Len(data)
                 /\ Writable(output_entry)
                 /\ output_entry \in DOMAIN saved'
                 /\ saved'[output_entry] = Len(data)
              \/ /\ dialogs' = Append(dialogs, ErrorBox("An error occurred"))
                 /\ saved' = saved
                 /\ file_entry \notin DOMAIN files \/ ~Writable(output_entry)
         ELSE /\ pc' \in {"open", "parse", "calc", "save"}
              /\ dialogs' = dialogs
              /\ saved' = saved]_vars

C10_Witness ==
    /\ pc = "idle"
    /\ Len(dialogs) = 2
    /\ dialogs[1].kind = "Success"
    /\ dialogs[2] = ErrorBox("An error occurred")
    /\ "out.txt" \in DOMAIN saved
    /\ saved["out.txt"] > 0

====
